---- MODULE Spec2Model ----
(***************************************************************************)
(* PipelineLayout::new and the lifetime of the PipelineLayout it returns   *)
(* (vulkano, src/descriptor/pipeline_layout/sys.rs).                       *)
(*                                                                         *)
(* One call of `new` is followed from its entry to its exit and, when it   *)
(* succeeds, the returned object is followed to its drop.  The description *)
(* (trait PipelineLayoutDesc) is foreign code: num_sets() and              *)
(* num_push_constants_ranges() are read when their loop starts, and each   *)
(* provided_set_layout(i) / num_bindings_in_set(i) / push_constants_range  *)
(* (i) answer is drawn when the loop asks for it and kept in `desc`.       *)
(*                                                                         *)
(* Machine integers are scaled down: usize has UsizeBits bits and u32 has  *)
(* U32Bits bits (a 64-bit target, usize wider than u32).                   *)
(***************************************************************************)
EXTENDS Integers, Sequences, FiniteSets, TLC

VARIABLES
    limits,          \* device.physical_device().limits()
    build,           \* compilation profile: overflow checks, debug assertions
    ext,             \* strong references held outside the call and the object
    desc,            \* the description: counts, and the answers given so far
    pc,              \* position of the call inside `new`
    layouts,         \* the local `layouts`, later the field `layouts`
    push_constants,  \* the local `push_constants`
    result,          \* what `new` returned ("none" while it runs)
    exitAt,          \* the position at which `new` left without Ok
    nativeCalls,     \* every vkCreatePipelineLayout request issued
    dslCreated,      \* every set-layout built by UnsafeDescriptorSetLayout::new
    plState,         \* Uninitialized -> Live -> Destroyed
    fieldsHeld,      \* the struct still owns `device` and `layouts`
    destroyed,       \* every handle given to vkDestroyPipelineLayout
    freed            \* shared objects whose last strong reference is gone

vars == <<limits, build, ext, desc, pc, layouts, push_constants, result, exitAt,
          nativeCalls, dslCreated, plState, fieldsHeld, destroyed, freed>>

---------------------------------------------------------------------------
(* Bounds of the model *)

MaxNumSets == 2
MaxNumRanges == 2
UsizeBits == 8
U32Bits == 4

UsizeMod == 2 ^ UsizeBits
U32Mod == 2 ^ U32Bits

SetLimits == {MaxNumSets - 1, MaxNumSets}
PushLimits == {8}
Offsets == {0, 8, UsizeMod - 4}
Sizes == {0, 4, 6}
StageMasks == {0, 1, 2}

---------------------------------------------------------------------------
(* Values *)

NoEntry == 0 - 1

BindingCounts == {NoEntry, 3}

DeviceObj == [name |-> "device", device |-> "A", fresh |-> FALSE, bindings |-> NoEntry, set |-> NoEntry]

ProvidedSame == [name |-> "PA", device |-> "A", fresh |-> FALSE, bindings |-> NoEntry, set |-> NoEntry]

ProvidedOther == [name |-> "PB", device |-> "B", fresh |-> FALSE, bindings |-> NoEntry, set |-> NoEntry]

FreshLayout(num, n) == [name |-> "fresh", device |-> "A", fresh |-> TRUE, bindings |-> n, set |-> num]

NoLayout == [name |-> "none", device |-> "none", fresh |-> FALSE, bindings |-> NoEntry, set |-> NoEntry]

NoRange == [present |-> FALSE, offset |-> 0, size |-> 0, stages |-> 0]

SetAnswers == {[provided |-> p, bindings |-> NoEntry] : p \in {ProvidedSame, ProvidedOther}}
              \cup {[provided |-> NoLayout, bindings |-> b] : b \in BindingCounts}

RangeAnswers == {NoRange} \cup
                {[present |-> TRUE, offset |-> o, size |-> s, stages |-> m] :
                    o \in Offsets, s \in Sizes, m \in StageMasks}

ValidationErrors == {"MaxDescriptorSetsLimitExceeded", "InvalidPushConstant",
                     "MaxPushConstantsSizeExceeded"}

DriverResults == {"SUCCESS", "ERROR_OUT_OF_HOST_MEMORY", "ERROR_OUT_OF_DEVICE_MEMORY",
                  "ERROR_DEVICE_LOST"}

Handle == "pipeline_layout_1"

---------------------------------------------------------------------------
(* Pure parts of `new` *)

RECURSIVE BitAnd(_, _)
BitAnd(a, b) ==
    IF a = 0 \/ b = 0 THEN 0
    ELSE (IF a % 2 = 1 /\ b % 2 = 1 THEN 1 ELSE 0) + 2 * BitAnd(a \div 2, b \div 2)

UsizeAdd(a, b) == (a + b) % UsizeMod

AddOverflows(a, b) == a + b >= UsizeMod

AsU32(x) == x % U32Mod

SameDeviceUnchecked(l) == TRUE

SameDevice(l) == l.device = DeviceObj.device

BindingsOrOne(b) == IF b = NoEntry THEN 1 ELSE b

BindingsOrZero(b) == IF b = NoEntry THEN 0 ELSE b

InternalObject(l) == <<l.name, l.set>>

LayoutsIds(ls) == [i \in DOMAIN ls |-> InternalObject(ls[i])]

TooManySetsOffByOne(ids) == Len(ids) > limits.max_bound_descriptor_sets + 1

TooManySets(ids) == Len(ids) > limits.max_bound_descriptor_sets

ShapeInvalid(r) == r.stages = 0 \/ r.size = 0 \/ (r.size % 4) # 0

ExceedsLimit(r) == UsizeAdd(r.offset, r.size) > limits.max_push_constants_size

VkRange(r) == [stageFlags |-> r.stages, offset |-> AsU32(r.offset), size |-> AsU32(r.size)]

RangeOutcomeLimitFirst(r) ==
    IF ~r.present THEN "continue"
    ELSE IF AddOverflows(r.offset, r.size) /\ build.overflow_checks THEN "panic"
    ELSE IF ExceedsLimit(r) THEN "MaxPushConstantsSizeExceeded"
    ELSE IF ShapeInvalid(r) THEN "InvalidPushConstant"
    ELSE "push"

RangeOutcome(r) ==
    IF ~r.present THEN "continue"
    ELSE IF ShapeInvalid(r) THEN "InvalidPushConstant"
    ELSE IF AddOverflows(r.offset, r.size) /\ build.overflow_checks THEN "panic"
    ELSE IF ExceedsLimit(r) THEN "MaxPushConstantsSizeExceeded"
    ELSE "push"

RECURSIVE StagesLoop(_, _, _)
StagesLoop(pcs, i, stages) ==
    IF i > Len(pcs) THEN TRUE
    ELSE IF BitAnd(stages, pcs[i].stageFlags) # 0 THEN FALSE
    ELSE StagesLoop(pcs, i + 1, BitAnd(stages, pcs[i].stageFlags))

StagesAssertion(pcs) == StagesLoop(pcs, 1, 0)

FromErrorIgnored(err) == "Ok"

FromError(err) ==
    IF err \in {"ERROR_OUT_OF_HOST_MEMORY", "ERROR_OUT_OF_DEVICE_MEMORY"}
    THEN "OomError" ELSE "panic"

CheckErrors(d) == IF d = "SUCCESS" THEN "Ok" ELSE FromError(d)

descriptor_set_layout(index) ==
    IF index < Len(layouts) THEN layouts[index + 1] ELSE NoLayout

---------------------------------------------------------------------------
(* Shared ownership *)

CallActive == pc \in {"resolve", "pcloop", "create"}

ListHeld == CallActive \/ fieldsHeld

Occurrences(o) == IF ListHeld THEN Cardinality({i \in DOMAIN layouts : layouts[i] = o}) ELSE 0

LayoutRefs(o) == (IF o = ProvidedSame THEN ext.PA ELSE 0) + Occurrences(o)

Tracked == {DeviceObj, ProvidedSame} \cup {layouts[i] : i \in DOMAIN layouts}

DeviceRefs ==
    ext.device + (IF CallActive THEN 1 ELSE 0) + (IF fieldsHeld THEN 1 ELSE 0)
    + Cardinality({o \in Tracked \ {DeviceObj} : SameDevice(o) /\ LayoutRefs(o) > 0})

Refs(o) == IF o = DeviceObj THEN DeviceRefs ELSE LayoutRefs(o)

FreeUnreferenced ==
    freed' = freed \cup {o \in Tracked \cup Tracked' : Refs(o) > 0 /\ Refs(o)' = 0}

---------------------------------------------------------------------------
(* The state before `new` is entered *)

Init ==
    /\ limits \in [max_bound_descriptor_sets : SetLimits, max_push_constants_size : PushLimits]
    /\ build \in [overflow_checks : BOOLEAN, debug_assertions : BOOLEAN]
    /\ desc \in [num_sets : 0 .. MaxNumSets, num_push_constants_ranges : 0 .. MaxNumRanges,
                 sets : {<< >>}, ranges : {<< >>}]
    /\ ext = [device |-> 1, PA |-> 1]
    /\ pc = "resolve"
    /\ layouts = << >>
    /\ push_constants = << >>
    /\ result = "none"
    /\ exitAt = "none"
    /\ nativeCalls = << >>
    /\ dslCreated = << >>
    /\ plState = "Uninitialized"
    /\ fieldsHeld = FALSE
    /\ destroyed = << >>
    /\ freed = {}

---------------------------------------------------------------------------
(* Leaving `new` without a PipelineLayout: the locals are dropped *)

ExitLeaking(res, at) ==
    /\ result' = res
    /\ exitAt' = at
    /\ pc' = "done"
    /\ UNCHANGED <<layouts, push_constants>>

Exit(res, at) ==
    /\ result' = res
    /\ exitAt' = at
    /\ pc' = "done"
    /\ layouts' = << >>
    /\ push_constants' = << >>

(* One iteration of `for num in 0 .. desc.num_sets()` *)
ResolveSet ==
    /\ pc = "resolve"
    /\ Len(desc.sets) < desc.num_sets
    /\ \E a \in SetAnswers :
        /\ a.provided = ProvidedSame => ext.PA > 0
        /\ desc' = [desc EXCEPT !.sets = Append(@, a)]
        /\ IF a.provided # NoLayout
           THEN IF SameDevice(a.provided)
                THEN /\ layouts' = Append(layouts, a.provided)
                     /\ UNCHANGED <<pc, push_constants, result, exitAt, dslCreated>>
                ELSE /\ Exit("panic", "resolve")
                     /\ UNCHANGED dslCreated
           ELSE \E built \in BOOLEAN :
                IF built
                THEN LET l == FreshLayout(Len(desc.sets), BindingsOrZero(a.bindings)) IN
                     /\ layouts' = Append(layouts, l)
                     /\ dslCreated' = Append(dslCreated, l)
                     /\ UNCHANGED <<pc, push_constants, result, exitAt>>
                ELSE /\ Exit("OomError", "resolve")
                     /\ UNCHANGED dslCreated
    /\ UNCHANGED <<limits, build, ext, nativeCalls, plState, fieldsHeld, destroyed>>
    /\ FreeUnreferenced

(* `layouts_ids` and the max_bound_descriptor_sets check *)
CheckSetLimit ==
    /\ pc = "resolve"
    /\ Len(desc.sets) = desc.num_sets
    /\ IF TooManySets(LayoutsIds(layouts))
       THEN Exit("MaxDescriptorSetsLimitExceeded", "limit")
       ELSE /\ pc' = "pcloop"
            /\ UNCHANGED <<layouts, push_constants, result, exitAt>>
    /\ UNCHANGED <<limits, build, ext, desc, nativeCalls, dslCreated, plState, fieldsHeld,
                   destroyed>>
    /\ FreeUnreferenced

(* One iteration of `for pc_id in 0 .. desc.num_push_constants_ranges()` *)
PushConstantStep ==
    /\ pc = "pcloop"
    /\ Len(desc.ranges) < desc.num_push_constants_ranges
    /\ \E r \in RangeAnswers :
        /\ desc' = [desc EXCEPT !.ranges = Append(@, r)]
        /\ LET outcome == RangeOutcome(r) IN
           IF outcome = "continue"
           THEN UNCHANGED <<pc, layouts, push_constants, result, exitAt>>
           ELSE IF outcome = "push"
           THEN /\ push_constants' = Append(push_constants, VkRange(r))
                /\ UNCHANGED <<pc, layouts, result, exitAt>>
           ELSE Exit(outcome, "pcloop")
    /\ UNCHANGED <<limits, build, ext, nativeCalls, dslCreated, plState, fieldsHeld, destroyed>>
    /\ FreeUnreferenced

(* The debug_assert! on stageFlags *)
CheckStages ==
    /\ pc = "pcloop"
    /\ Len(desc.ranges) = desc.num_push_constants_ranges
    /\ IF build.debug_assertions /\ ~StagesAssertion(push_constants)
       THEN Exit("panic", "assert")
       ELSE /\ pc' = "create"
            /\ UNCHANGED <<layouts, push_constants, result, exitAt>>
    /\ UNCHANGED <<limits, build, ext, desc, nativeCalls, dslCreated, plState, fieldsHeld,
                   destroyed>>
    /\ FreeUnreferenced

(* vkCreatePipelineLayout and the construction of the PipelineLayout *)
CreateNative ==
    /\ pc = "create"
    /\ \E d \in DriverResults :
        /\ nativeCalls' = Append(nativeCalls, [setLayouts |-> LayoutsIds(layouts),
                                                ranges |-> push_constants,
                                                driver |-> d])
        /\ IF CheckErrors(d) = "Ok"
           THEN /\ result' = "Ok"
                /\ pc' = "done"
                /\ plState' = "Live"
                /\ fieldsHeld' = TRUE
                /\ UNCHANGED <<layouts, push_constants, exitAt>>
           ELSE /\ Exit(CheckErrors(d), "create")
                /\ UNCHANGED <<plState, fieldsHeld>>
    /\ UNCHANGED <<limits, build, ext, desc, dslCreated, destroyed>>
    /\ FreeUnreferenced

(* impl Drop for PipelineLayout: vkDestroyPipelineLayout *)
DropPipelineLayout ==
    /\ plState = "Live"
    /\ destroyed' = Append(destroyed, Handle)
    /\ plState' = "Destroyed"
    /\ UNCHANGED <<limits, build, ext, desc, pc, layouts, push_constants, result, exitAt,
                   nativeCalls, dslCreated, fieldsHeld>>
    /\ FreeUnreferenced

(* The fields are dropped after Drop::drop has returned *)
FieldsDroppableBeforeDestroy == plState = "Live"

FieldsDroppable == plState = "Destroyed"

DropFields ==
    /\ FieldsDroppable
    /\ fieldsHeld
    /\ fieldsHeld' = FALSE
    /\ layouts' = << >>
    /\ UNCHANGED <<limits, build, ext, desc, pc, push_constants, result, exitAt,
                   nativeCalls, dslCreated, plState, destroyed>>
    /\ FreeUnreferenced

(* Another holder of the device or of the provided set-layout drops its Arc *)
ExternalRelease ==
    /\ \E k \in {"device", "PA"} :
        /\ ext[k] > 0
        /\ ext' = [ext EXCEPT ![k] = @ - 1]
    /\ UNCHANGED <<limits, build, desc, pc, layouts, push_constants, result, exitAt,
                   nativeCalls, dslCreated, plState, fieldsHeld, destroyed>>
    /\ FreeUnreferenced

Next ==
    \/ ResolveSet
    \/ CheckSetLimit
    \/ PushConstantStep
    \/ CheckStages
    \/ CreateNative
    \/ DropPipelineLayout
    \/ DropFields
    \/ ExternalRelease

Spec == Init /\ [][Next]_vars

---------------------------------------------------------------------------
(* What the specification says of one range, one set and one request,      *)
(* stated without the operators above                                      *)

Malformed(r) == r.present /\ (r.stages = 0 \/ r.size = 0 \/ r.size % 4 # 0)

WellShaped(r) == r.present /\ r.stages # 0 /\ r.size # 0 /\ r.size % 4 = 0

EndOffset(r) == r.offset + r.size

SetsExceedLimit == desc.num_sets > limits.max_bound_descriptor_sets

ExpectedLayout(i) ==
    LET a == desc.sets[i + 1] IN
    IF a.provided # NoLayout THEN a.provided
    ELSE [name |-> "fresh", device |-> "A", fresh |-> TRUE,
          bindings |-> (IF a.bindings = NoEntry THEN 0 ELSE a.bindings), set |-> i]

ExpectedLayouts == [k \in DOMAIN desc.sets |-> ExpectedLayout(k - 1)]

IsPresent(r) == r.present

ExpectedRanges ==
    LET given == SelectSeq(desc.ranges, IsPresent) IN
    [k \in DOMAIN given |->
        [stageFlags |-> given[k].stages, offset |-> given[k].offset, size |-> given[k].size]]

BuiltLayouts == SelectSeq(ExpectedLayouts, LAMBDA l : l.fresh)

PassedValidation == pc = "done" /\ exitAt \in {"none", "create"}

---------------------------------------------------------------------------
(* Claims *)

\* C1: when every set index has been resolved and num_sets() exceeds the device's
\* max_bound_descriptor_sets, `new` returns Err(MaxDescriptorSetsLimitExceeded), and
\* no vkCreatePipelineLayout request is ever issued for such a description.
C1_SetLimitRejected ==
    SetsExceedLimit =>
        /\ nativeCalls = << >>
        /\ (pc = "done" /\ exitAt # "resolve") => result = "MaxDescriptorSetsLimitExceeded"

C1_Witness ==
    /\ SetsExceedLimit
    /\ Len(desc.sets) = desc.num_sets
    /\ result = "MaxDescriptorSetsLimitExceeded"

C3_OversizedRangeRejected ==
    \A k \in DOMAIN desc.ranges :
        (WellShaped(desc.ranges[k])
            /\ EndOffset(desc.ranges[k]) > limits.max_push_constants_size)
        => result = "MaxPushConstantsSizeExceeded"

\* C4: a provided set-layout that belongs to another device makes `new` panic: it
\* never returns Ok, no vkCreatePipelineLayout request is issued and no
\* PipelineLayout comes to exist.
C4_WrongDevicePanics ==
    \A k \in DOMAIN desc.sets :
        (desc.sets[k].provided # NoLayout /\ desc.sets[k].provided.device # DeviceObj.device)
        => /\ result = "panic"
           /\ exitAt = "resolve"
           /\ nativeCalls = << >>
           /\ plState = "Uninitialized"

C4_Witness ==
    /\ Len(desc.sets) = 2
    /\ desc.sets[1].provided = ProvidedSame
    /\ desc.sets[2].provided = ProvidedOther
    /\ result = "panic"

\* C5 (as claimed): with assertions enabled, no vkCreatePipelineLayout request holds
\* two push-constant ranges that share a shader-stage bit.
C5_OverlapDetected ==
    build.debug_assertions =>
        \A c \in DOMAIN nativeCalls :
            \A i, j \in DOMAIN nativeCalls[c].ranges :
                i < j => BitAnd(nativeCalls[c].ranges[i].stageFlags,
                                nativeCalls[c].ranges[j].stageFlags) = 0

\* C6: Uninitialized -> Live -> Destroyed with no re-entry; the handle of a
\* successful vkCreatePipelineLayout is given to vkDestroyPipelineLayout exactly
\* once, in the step that ends the PipelineLayout's life, never earlier and never
\* twice; a construction that fails leaves no PipelineLayout and never destroys.
C6_StateInv ==
    /\ Len(destroyed) <= 1
    /\ plState = "Uninitialized" => (destroyed = << >> /\ result # "Ok")
    /\ plState = "Live" =>
        /\ destroyed = << >>
        /\ result = "Ok"
        /\ Len(nativeCalls) = 1
        /\ nativeCalls[1].driver = "SUCCESS"
    /\ plState = "Destroyed" =>
        /\ destroyed = <<Handle>>
        /\ result = "Ok"
        /\ nativeCalls[1].driver = "SUCCESS"
    /\ result \notin {"none", "Ok"} => (plState = "Uninitialized" /\ destroyed = << >>)

C6_Lifetime ==
    /\ []C6_StateInv
    /\ [][/\ plState' # plState =>
                <<plState, plState'>> \in {<<"Uninitialized", "Live">>, <<"Live", "Destroyed">>}
          /\ destroyed' # destroyed => (plState = "Live" /\ plState' = "Destroyed")
          /\ (plState = "Live" /\ plState' = "Destroyed") => destroyed' = Append(destroyed, Handle)
         ]_vars

C6_Witness == plState = "Destroyed" /\ destroyed = <<Handle>> /\ ~fieldsHeld

\* C7 (as claimed): when a validation error is returned, the call has created no
\* native object: no pipeline layout and no descriptor-set layout.
C7_NoNativeObjectCreated ==
    result \in ValidationErrors =>
        /\ nativeCalls = << >>
        /\ dslCreated = << >>
        /\ layouts = << >>

\* C7 (amended): when a validation error is returned, no vkCreatePipelineLayout
\* request has been issued, no PipelineLayout exists and nothing is retained: the
\* set-layouts the call built during resolution have all been released again.
C7_NoPipelineLayoutNothingRetained ==
    result \in ValidationErrors =>
        /\ nativeCalls = << >>
        /\ plState = "Uninitialized"
        /\ layouts = << >>
        /\ push_constants = << >>
        /\ \A i \in DOMAIN dslCreated : dslCreated[i] \in freed

C7_Witness ==
    /\ result \in ValidationErrors
    /\ dslCreated # << >>

\* C8: after a successful `new`, the resolved list has num_sets() entries in index
\* order: descriptor_set_layout(i) is the provided object, or else the one
\* set-layout built for set i with num_bindings_in_set(i) bindings (0 when unknown),
\* and none for i >= num_sets(); exactly one set-layout is built per set without
\* a provided layout.
C8_ResolvedList ==
    plState = "Live" =>
        /\ Len(layouts) = desc.num_sets
        /\ \A i \in 0 .. MaxNumSets + 1 :
            descriptor_set_layout(i) = (IF i < desc.num_sets THEN ExpectedLayout(i) ELSE NoLayout)
        /\ dslCreated = BuiltLayouts

C8_Witness ==
    /\ plState = "Live"
    /\ desc.num_sets = 1
    /\ desc.sets[1] = [provided |-> NoLayout, bindings |-> 3]
    /\ Len(dslCreated) = 1
    /\ descriptor_set_layout(0) = dslCreated[1]
    /\ descriptor_set_layout(0).bindings = 3
    /\ descriptor_set_layout(1) = NoLayout

\* C9 (as claimed): a description that passes every validation leads to exactly one
\* vkCreatePipelineLayout request, holding the resolved set-layout handles in index
\* order and the returned push-constant ranges in index order with offset, size
\* and stage mask unchanged; when the driver reports success, `new` returns Ok.
C9_OneFaithfulRequest ==
    /\ Len(nativeCalls) <= 1
    /\ PassedValidation =>
        /\ Len(nativeCalls) = 1
        /\ nativeCalls[1].setLayouts = [k \in DOMAIN ExpectedLayouts |->
                                           <<ExpectedLayouts[k].name, ExpectedLayouts[k].set>>]
        /\ nativeCalls[1].ranges = ExpectedRanges
        /\ nativeCalls[1].driver = "SUCCESS" => result = "Ok"

\* C10: while the native handle exists, the device and every resolved set-layout
\* are alive whatever the other holders release; an object is freed only when no
\* holder is left; the fields are released only after vkDestroyPipelineLayout.
C10_StateInv ==
    /\ plState = "Live" =>
        /\ fieldsHeld
        /\ DeviceObj \notin freed
        /\ Refs(DeviceObj) > 0
        /\ \A i \in DOMAIN layouts : layouts[i] \notin freed /\ Refs(layouts[i]) > 0
    /\ \A o \in freed : Refs(o) = 0

C10_Outlives ==
    /\ []C10_StateInv
    /\ [][(fieldsHeld /\ ~fieldsHeld') => (plState = "Destroyed" /\ destroyed = <<Handle>>)]_vars

C10_Witness ==
    /\ plState = "Live"
    /\ ext.device = 0
    /\ ext.PA = 0
    /\ \E i \in DOMAIN layouts : layouts[i] = ProvidedSame
    /\ \E i \in DOMAIN layouts : layouts[i].fresh

====
